---- MODULE Spec2Model ----
(***************************************************************************)
(* Model of the Photoshop ExtendScript tools of poster-tools/ps-scripts:    *)
(*   toggle-vis-by-prefix.jsx  (toggleLayersByPrefix, and the rename pass)  *)
(*   hide-all-text-layers.jsx  (hideTextLayers)                             *)
(*   export-all-groups.jsx     (main, exportPNG)                            *)
(* The state is the host's list of open documents (each a tree of layers)   *)
(* plus what the last script run read and reported.  Strings are sequences  *)
(* of one-character strings, so that indexOf, toLowerCase and replace are   *)
(* computed character by character.                                         *)
(***************************************************************************)
EXTENDS Integers, Sequences, FiniteSets, TLC

VARIABLES
    documents,      \* app.documents: <<>> or <<doc>>, doc = [layers |-> Seq(Layer)]
    before,         \* app.documents as it was when the last script run started
    script,         \* the script run last: "none", "toggle", "rename", "hide", "export"
    runs,           \* number of runs of hide-all-text-layers so far
    prefix,         \* toggle: what the first prompt returned
    action,         \* toggle: what the second prompt returned
    outcome,        \* toggle: which return/alert ended the run
    matchCount,     \* toggle: the count shown in the final alert
    pc,             \* export: position in main ("idle", "loop", "done", "cancelled", "nodoc", "failed")
    originalStates, \* export: main's originalStates array
    i,              \* export: index of the second loop of main (1-based)
    exportCount,    \* export: main's exportCount
    files,          \* export: names of the files present in the chosen folder
    saves           \* export: log of the doc.saveAs calls that returned

vars == <<documents, before, script, runs, prefix, action, outcome, matchCount,
          pc, originalStates, i, exportCount, files, saves>>

toggleVars == <<prefix, action, outcome, matchCount>>
exportVars == <<pc, originalStates, i, exportCount, files, saves>>

----------------------------------------------------------------------------
(* Bounds of the model *)

\* largest number of layers (of any kind, at any depth) in a document
MaxNodes == 3
\* largest number of successive runs of hide-all-text-layers
MaxRuns == 2

----------------------------------------------------------------------------
(* ExtendScript values *)

\* a string value, null, and undefined (a prompt that was never shown)
Str(s) == <<"string", s>>
Null == <<"null", <<>>>>
Undefined == <<"undefined", <<>>>>

\* ToBoolean: null, undefined and the empty string are falsy
Truthy(v) == v[1] = "string" /\ v[2] # <<>>

UpperCase == <<"A","B","C","D","E","F","G","H","I","J","K","L","M",
               "N","O","P","Q","R","S","T","U","V","W","X","Y","Z">>
LowerCase == <<"a","b","c","d","e","f","g","h","i","j","k","l","m",
               "n","o","p","q","r","s","t","u","v","w","x","y","z">>

toLowerCaseChar(c) ==
    IF \E k \in 1..Len(UpperCase) : UpperCase[k] = c
    THEN LowerCase[CHOOSE k \in 1..Len(UpperCase) : UpperCase[k] = c]
    ELSE c

\* the normalisation left out: the action compared as typed
toLowerCaseOmitted(s) == s

\* String.prototype.toLowerCase
toLowerCase(s) == [k \in 1..Len(s) |-> toLowerCaseChar(s[k])]

\* String.prototype.indexOf: 0-based position of the first occurrence, or -1
indexOf(s, p) ==
    LET hits == {k \in 0..(Len(s) - Len(p)) : SubSeq(s, k + 1, k + Len(p)) = p}
    IN IF hits = {} THEN -1 ELSE CHOOSE k \in hits : \A m \in hits : k <= m

----------------------------------------------------------------------------
(* The host's layer tree *)

ArtLayer(name, kind, visible, contents) ==
    [typename |-> "ArtLayer", kind |-> kind, name |-> name, visible |-> visible,
     contents |-> contents, layers |-> <<>>]

\* a LayerSet has no kind property (layer.kind is undefined)
LayerSet(name, visible, layers) ==
    [typename |-> "LayerSet", kind |-> "undefined", name |-> name, visible |-> visible,
     contents |-> <<>>, layers |-> layers]

\* container.artLayers and container.layerSets: the sub-collections by type
artLayers(container) == SelectSeq(container.layers, LAMBDA l : l.typename = "ArtLayer")
layerSets(container) == SelectSeq(container.layers, LAMBDA l : l.typename = "LayerSet")

\* the art layers a document may hold: A gives the names, visibilities and
\* text contents to draw from
ArtLayers(A) ==
    {ArtLayer(n, "NORMAL", v, <<>>) : n \in A.names, v \in A.visible}
    \cup {ArtLayer(n, "TEXT", v, c) : n \in A.names, v \in A.visible, c \in A.contents}

RECURSIVE Forests(_, _)
RECURSIVE Trees(_, _)
\* all layer lists of exactly n layers in total
Forests(n, A) ==
    IF n = 0 THEN {<<>>}
    ELSE UNION {{<<first>> \o rest : first \in Trees(k, A), rest \in Forests(n - k, A)}
                : k \in 1..n}
\* all layers that, with their descendants, are exactly k layers
Trees(k, A) ==
    (IF k = 1 THEN ArtLayers(A) ELSE {})
    \cup {LayerSet(n, v, f) : n \in A.setNames, v \in A.visible, f \in Forests(k - 1, A)}

\* app.documents: no document open, or one document of at most MaxNodes layers
Documents(A) ==
    {<<>>} \cup {<<[layers |-> f]>> : f \in UNION {Forests(n, A) : n \in 0..MaxNodes}}

----------------------------------------------------------------------------
(* toggle-vis-by-prefix.jsx *)

\* the test written as indexOf(prefix) !== -1: the prefix anywhere in the name
NameContains(name, p) == indexOf(name, p) >= 0

\* layer.name.indexOf(prefix) === 0
NameMatches(name, p) == indexOf(name, p) = 0

\* the count incremented only when the assignment changed the visibility
VisitLayerCountChanged(layer, p, shouldShow, count) ==
    IF indexOf(layer.name, p) = 0
    THEN [layer |-> [layer EXCEPT !.visible = shouldShow],
          matchCount |-> IF layer.visible # shouldShow THEN count + 1 ELSE count]
    ELSE [layer |-> layer, matchCount |-> count]

\* the body of processLayers' loop before the recursion: a layer whose name
\* matches gets the requested visibility and is counted
VisitLayer(layer, p, shouldShow, count) ==
    IF NameMatches(layer.name, p)
    THEN [layer |-> [layer EXCEPT !.visible = shouldShow], matchCount |-> count + 1]
    ELSE [layer |-> layer, matchCount |-> count]

RECURSIVE processLayers(_, _, _, _)
RECURSIVE processLayersFrom(_, _, _, _, _)
\* processLayers: the layers as the call leaves them and the count it returns
processLayers(layers, p, shouldShow, count) ==
    processLayersFrom(1, layers, p, shouldShow, count)
\* the for loop of processLayers from index k on
processLayersFrom(k, layers, p, shouldShow, count) ==
    IF k > Len(layers) THEN [layers |-> layers, matchCount |-> count]
    ELSE LET v == VisitLayer(layers[k], p, shouldShow, count)
             sub == IF v.layer.typename = "LayerSet"
                    THEN processLayers(v.layer.layers, p, shouldShow, v.matchCount)
                    ELSE [layers |-> v.layer.layers, matchCount |-> v.matchCount]
             done == [v.layer EXCEPT !.layers = sub.layers]
         IN processLayersFrom(k + 1, [layers EXCEPT ![k] = done], p, shouldShow,
                              sub.matchCount)

\* action !== "show" && action !== "hide" is false
ValidAction(a) == a = <<"s","h","o","w">> \/ a = <<"h","i","d","e">>

\* toggleLayersByPrefix with the two prompts answering p and a: the documents
\* it leaves, the prompts it showed, how it ended and the count it reported
toggleLayersByPrefix(docs, p, a) ==
    IF Len(docs) = 0
    THEN [documents |-> docs, prefix |-> Undefined, action |-> Undefined,
          outcome |-> "nodoc", matchCount |-> 0]
    ELSE IF ~Truthy(p)
    THEN [documents |-> docs, prefix |-> p, action |-> Undefined,
          outcome |-> "noprefix", matchCount |-> 0]
    ELSE IF ~Truthy(a)
    THEN [documents |-> docs, prefix |-> p, action |-> a,
          outcome |-> "noaction", matchCount |-> 0]
    ELSE IF ~ValidAction(toLowerCase(a[2]))
    THEN [documents |-> docs, prefix |-> p, action |-> a,
          outcome |-> "invalid", matchCount |-> 0]
    ELSE LET shouldShow == toLowerCase(a[2]) = <<"s","h","o","w">>
             r == processLayers(docs[1].layers, p[2], shouldShow, 0)
         IN [documents |-> [docs EXCEPT ![1].layers = r.layers],
             prefix |-> p, action |-> a,
             outcome |-> "complete", matchCount |-> r.matchCount]

\* what the user may type at the prefix prompt (or cancel it)
PrefixInputs ==
    {Null, Str(<<>>), Str(<<"B">>), Str(<<"B","G">>), Str(<<"b">>), Str(<<"B","G","_">>)}
\* what the user may type at the action prompt (or cancel it)
ActionInputs ==
    {Null, Str(<<>>), Str(<<"s","h","o","w">>), Str(<<"h","i","d","e">>),
     Str(<<"S","H","O","W">>), Str(<<"H","i","d","e">>), Str(<<"s","h","o","w","n">>),
     Str(<<"h","i","d">>)}

ToggleAttrs ==
    [names |-> {<<"B","G">>, <<"G","B">>}, setNames |-> {<<"B","G">>, <<"G","B">>},
     visible |-> BOOLEAN, contents |-> {}]

InitCommon ==
    /\ before = documents
    /\ script = "none"
    /\ runs = 0
    /\ prefix = Undefined
    /\ action = Undefined
    /\ outcome = "none"
    /\ matchCount = 0
    /\ pc = "idle"
    /\ originalStates = <<>>
    /\ i = 0
    /\ exportCount = 0
    /\ files = {}
    /\ saves = <<>>

InitToggle ==
    /\ documents \in Documents(ToggleAttrs)
    /\ InitCommon

\* one run of the script, on any document (every document a later run could
\* start from is one a first run starts from): the second prompt is only shown
\* after a prefix was entered, so its answer is drawn only then
Toggle ==
    /\ script = "none"
    /\ \E p \in PrefixInputs :
       \E a \in (IF Len(documents) > 0 /\ Truthy(p) THEN ActionInputs ELSE {Undefined}) :
           LET r == toggleLayersByPrefix(documents, p, a)
           IN /\ documents' = r.documents
              /\ before' = documents
              /\ script' = "toggle"
              /\ prefix' = r.prefix
              /\ action' = r.action
              /\ outcome' = r.outcome
              /\ matchCount' = r.matchCount
              /\ UNCHANGED <<runs, exportVars>>

NextToggle == Toggle

SpecToggle == InitToggle /\ [][NextToggle]_vars

----------------------------------------------------------------------------
(* toggle-vis-by-prefix.jsx, second script: rename groups from their text *)

RECURSIVE getTextFromGroup(_)
RECURSIVE firstTextFrom(_, _)
RECURSIVE nestedTextFrom(_, _)
\* getTextFromGroup: the contents of a text layer of the group, or null
getTextFromGroup(group) ==
    LET direct == firstTextFrom(artLayers(group), 1)
    IN IF direct # Undefined THEN direct ELSE nestedTextFrom(layerSets(group), 1)
\* the first loop, over group.artLayers from index j on: returns at the first
\* text layer (Undefined stands for the loop ending without a return)
firstTextFrom(arts, j) ==
    IF j > Len(arts) THEN Undefined
    ELSE IF arts[j].kind = "TEXT" THEN Str(arts[j].contents)
    ELSE firstTextFrom(arts, j + 1)
\* the second loop, over group.layerSets from index k on
nestedTextFrom(sets, k) ==
    IF k > Len(sets) THEN Null
    ELSE LET result == getTextFromGroup(sets[k])
         IN IF Truthy(result) THEN result ELSE nestedTextFrom(sets, k + 1)

\* the assignment made without the if: null is converted to the string "null"
RenameGroupUnchecked(group) ==
    LET textContent == getTextFromGroup(group)
    IN [group EXCEPT !.name = IF textContent[1] = "string" THEN textContent[2]
                              ELSE <<"n","u","l","l">>]

\* the body of the loop over doc.layerSets
RenameGroup(group) ==
    LET textContent == getTextFromGroup(group)
    IN IF Truthy(textContent) THEN [group EXCEPT !.name = textContent[2]] ELSE group

\* the loop over doc.layerSets, the top-level groups in document order; the
\* top-level art layers are not visited
renameGroups(doc) ==
    [doc EXCEPT !.layers = [k \in 1..Len(doc.layers) |->
        IF doc.layers[k].typename = "LayerSet" THEN RenameGroup(doc.layers[k])
        ELSE doc.layers[k]]]

RenameAttrs ==
    [names |-> {<<"L">>}, setNames |-> {<<"G">>}, visible |-> {TRUE},
     contents |-> {<<>>, <<"x">>, <<"y">>}]

InitRename ==
    /\ documents \in Documents(RenameAttrs)
    /\ InitCommon

\* one run of the script
Rename ==
    /\ documents' = IF Len(documents) = 0 THEN documents
                    ELSE [documents EXCEPT ![1] = renameGroups(documents[1])]
    /\ before' = documents
    /\ script' = "rename"
    /\ UNCHANGED <<runs, toggleVars, exportVars>>

NextRename == Rename

SpecRename == InitRename /\ [][NextRename]_vars

----------------------------------------------------------------------------
(* hide-all-text-layers.jsx *)

\* the visibility of a text layer flipped instead of cleared
HideIfTextToggled(layer) ==
    IF layer.kind # "undefined" /\ layer.kind = "TEXT"
    THEN [layer EXCEPT !.visible = ~layer.visible]
    ELSE layer

\* if (layer.kind && layer.kind == LayerKind.TEXT) layer.visible = false
HideIfText(layer) ==
    IF layer.kind # "undefined" /\ layer.kind = "TEXT"
    THEN [layer EXCEPT !.visible = FALSE]
    ELSE layer

RECURSIVE hideTextLayers(_)
RECURSIVE hideTextLayersFrom(_, _)
\* hideTextLayers: the container (a document or a group) as the call leaves it
hideTextLayers(container) ==
    [container EXCEPT !.layers = hideTextLayersFrom(1, container.layers)]
\* its for loop from index k on
hideTextLayersFrom(k, layers) ==
    IF k > Len(layers) THEN layers
    ELSE LET hidden == HideIfText(layers[k])
             done == IF hidden.typename = "LayerSet" THEN hideTextLayers(hidden)
                     ELSE hidden
         IN hideTextLayersFrom(k + 1, [layers EXCEPT ![k] = done])

HideAttrs ==
    [names |-> {<<"L">>}, setNames |-> {<<"G">>}, visible |-> BOOLEAN,
     contents |-> {<<"T">>}]

InitHide ==
    /\ documents \in Documents(HideAttrs)
    /\ InitCommon

\* one run of the script
Hide ==
    /\ runs < MaxRuns
    /\ documents' = IF Len(documents) > 0
                    THEN [documents EXCEPT ![1] = hideTextLayers(documents[1])]
                    ELSE documents
    /\ before' = documents
    /\ script' = "hide"
    /\ runs' = runs + 1
    /\ UNCHANGED <<toggleVars, exportVars>>

NextHide == Hide

SpecHide == InitHide /\ [][NextHide]_vars

----------------------------------------------------------------------------
(* export-all-groups.jsx *)

Reserved == {"/", "\\", ":", "*", "?", "\"", "<", ">", "|"}

\* layer.name.replace(/[\/\\:*?"<>|]/g, "_")
CleanFilename(name) ==
    [k \in 1..Len(name) |-> IF name[k] \in Reserved THEN "_" ELSE name[k]]

\* the name of the file in the export folder: filename + ".png"
ExportFile(name) == CleanFilename(name) \o <<".", "p", "n", "g">>

\* the first loop of main: originalStates
SavedStates(layers) == [k \in 1..Len(layers) |-> layers[k].visible]

\* only the top-level groups hidden, the top-level art layers left as they are
HideAllGroups(layers) ==
    [k \in 1..Len(layers) |->
        IF layers[k].typename = "LayerSet" THEN [layers[k] EXCEPT !.visible = FALSE]
        ELSE layers[k]]

\* the first loop of main: every top-level layer hidden
HideAll(layers) == [k \in 1..Len(layers) |-> [layers[k] EXCEPT !.visible = FALSE]]

\* layer.visible = true / layer.visible = false on the k-th top-level layer
SetVisible(layers, k, v) == [layers EXCEPT ![k].visible = v]

\* the states read back after the layers were hidden: nothing is restored
RestoreStatesSkipped(layers, states) == layers

\* the last loop of main: doc.layers[i].visible = originalStates[i]
RestoreStates(layers, states) ==
    [k \in 1..Len(layers) |-> [layers[k] EXCEPT !.visible = states[k]]]

ExportAttrs ==
    [names |-> {<<"a","/","b">>, <<"a",":","b">>},
     setNames |-> {<<"a","/","b">>, <<"a",":","b">>},
     visible |-> BOOLEAN, contents |-> {}]

InitExport ==
    /\ documents \in Documents(ExportAttrs)
    /\ InitCommon

\* app.documents.length === 0: the alert, and main is not called
ExportNoDocument ==
    /\ pc = "idle"
    /\ Len(documents) = 0
    /\ pc' = "nodoc"
    /\ before' = documents
    /\ script' = "export"
    /\ UNCHANGED <<documents, runs, toggleVars, originalStates, i, exportCount, files, saves>>

\* main, the folder dialog dismissed: exportFolder == null
ExportCancelled ==
    /\ pc = "idle"
    /\ Len(documents) > 0
    /\ pc' = "cancelled"
    /\ before' = documents
    /\ script' = "export"
    /\ UNCHANGED <<documents, runs, toggleVars, originalStates, i, exportCount, files, saves>>

\* main, a folder selected: the states are stored and every top-level layer hidden
ExportBegin ==
    /\ pc = "idle"
    /\ Len(documents) > 0
    /\ originalStates' = SavedStates(documents[1].layers)
    /\ documents' = [documents EXCEPT ![1].layers = HideAll(documents[1].layers)]
    /\ exportCount' = 0
    /\ i' = 1
    /\ pc' = "loop"
    /\ before' = documents
    /\ script' = "export"
    /\ UNCHANGED <<runs, toggleVars, files, saves>>

\* one iteration of the second loop in which doc.saveAs (if called) returns
ExportIteration ==
    /\ pc = "loop"
    /\ i <= Len(documents[1].layers)
    /\ LET layer == documents[1].layers[i]
           shown == SetVisible(documents[1].layers, i, TRUE)
       IN IF layer.typename = "LayerSet"
          THEN /\ saves' = Append(saves, [index |-> i, file |-> ExportFile(layer.name),
                                          visible |-> SavedStates(shown)])
               /\ files' = files \cup {ExportFile(layer.name)}
               /\ exportCount' = exportCount + 1
               /\ documents' = [documents EXCEPT ![1].layers = SetVisible(shown, i, FALSE)]
          ELSE UNCHANGED <<saves, files, exportCount, documents>>
    /\ i' = i + 1
    /\ UNCHANGED <<before, script, runs, toggleVars, pc, originalStates>>

\* an iteration in which doc.saveAs throws: nothing catches it, the script ends
ExportSaveFails ==
    /\ pc = "loop"
    /\ i <= Len(documents[1].layers)
    /\ documents[1].layers[i].typename = "LayerSet"
    /\ documents' = [documents EXCEPT ![1].layers = SetVisible(documents[1].layers, i, TRUE)]
    /\ pc' = "failed"
    /\ UNCHANGED <<before, script, runs, toggleVars, originalStates, i, exportCount, files, saves>>

\* the last loop of main and the closing alert
ExportFinish ==
    /\ pc = "loop"
    /\ i > Len(documents[1].layers)
    /\ documents' = [documents EXCEPT
                        ![1].layers = RestoreStates(documents[1].layers, originalStates)]
    /\ pc' = "done"
    /\ UNCHANGED <<before, script, runs, toggleVars, originalStates, i, exportCount, files, saves>>

NextExport ==
    \/ ExportNoDocument
    \/ ExportCancelled
    \/ ExportBegin
    \/ ExportIteration
    \/ ExportSaveFails
    \/ ExportFinish

SpecExport == InitExport /\ [][NextExport]_vars

----------------------------------------------------------------------------
(* What the specification says, stated without the scripts' own operators *)

\* name starts with p at position 0, case-sensitive
StartsWith(name, p) == Len(p) <= Len(name) /\ \A k \in 1..Len(p) : name[k] = p[k]

\* a is word in some mix of upper and lower case (word is lower case)
AnyCaseOf(a, word) ==
    /\ Len(a) = Len(word)
    /\ \A k \in 1..Len(a) :
          \/ a[k] = word[k]
          \/ \E j \in 1..Len(LowerCase) : LowerCase[j] = word[k] /\ UpperCase[j] = a[k]

Show == <<"s","h","o","w">>
HideWord == <<"h","i","d","e">>

RECURSIVE ToggledAsSpecified(_, _, _, _)
\* new is old with exactly the nodes whose name starts with p set to show
ToggledAsSpecified(old, new, p, show) ==
    /\ Len(new) = Len(old)
    /\ \A k \in 1..Len(old) :
          /\ new[k].visible = (IF StartsWith(old[k].name, p) THEN show ELSE old[k].visible)
          /\ ToggledAsSpecified(old[k].layers, new[k].layers, p, show)

RECURSIVE CountStartingWith(_, _)
\* number of nodes, at any depth, whose name starts with p
CountStartingWith(layers, p) ==
    IF layers = <<>> THEN 0
    ELSE (IF StartsWith(Head(layers).name, p) THEN 1 ELSE 0)
         + CountStartingWith(Head(layers).layers, p)
         + CountStartingWith(Tail(layers), p)

RECURSIVE HasText(_)
\* the layer has a Text descendant at some depth
HasText(layer) ==
    \E k \in 1..Len(layer.layers) :
        \/ layer.layers[k].typename = "ArtLayer" /\ layer.layers[k].kind = "TEXT"
        \/ HasText(layer.layers[k])

RECURSIVE FirstTextContents(_)
\* the contents of the first Text node of the group's subtree, direct children
\* before nested containers (for a group with HasText)
FirstTextContents(group) ==
    LET texts == {k \in 1..Len(group.layers) :
                     group.layers[k].typename = "ArtLayer" /\ group.layers[k].kind = "TEXT"}
        nested == {k \in 1..Len(group.layers) : HasText(group.layers[k])}
    IN IF texts # {}
       THEN group.layers[CHOOSE k \in texts : \A m \in texts : k <= m].contents
       ELSE FirstTextContents(group.layers[CHOOSE k \in nested : \A m \in nested : k <= m])

\* some Text node lies inside a group of these layers
HasNestedText(layers) ==
    \E k \in 1..Len(layers) : HasText(layers[k])

\* the indices below n of the top-level groups, in document order
RECURSIVE GroupIndices(_, _)
GroupIndices(layers, n) ==
    IF n <= 1 THEN <<>>
    ELSE IF n - 1 <= Len(layers) /\ layers[n - 1].typename = "LayerSet"
    THEN Append(GroupIndices(layers, n - 1), n - 1)
    ELSE GroupIndices(layers, n - 1)

TopLevelGroups(layers) == {k \in 1..Len(layers) : layers[k].typename = "LayerSet"}

----------------------------------------------------------------------------
(* Claims *)

\* C1: after a toggle run that completes with prefix p and target state s,
\* every node at any depth whose name starts with p at position 0 has
\* visible = (s = show), and every other node keeps the visibility it had
\* before the run.
C1_ToggleSetsExactlyMatching ==
    (script = "toggle" /\ outcome = "complete") =>
        ToggledAsSpecified(before[1].layers, documents[1].layers, prefix[2],
                           AnyCaseOf(action[2], Show))

\* C1 witness: a completed run that changed a matching node inside a matching
\* group and left alone a node that has the prefix at a later position
C1_Witness ==
    /\ script = "toggle" /\ outcome = "complete"
    /\ prefix = Str(<<"B">>)
    /\ \E k \in 1..Len(before[1].layers) :
          LET g == before[1].layers[k]
          IN /\ g.typename = "LayerSet" /\ g.name = <<"B","G">>
             /\ Len(g.layers) = 2
             /\ g.layers[1].name = <<"B","G">>
             /\ g.layers[1].visible # documents[1].layers[k].layers[1].visible
             /\ g.layers[2].name = <<"G","B">>
             /\ g.layers[2].visible # AnyCaseOf(action[2], Show)

\* C2: the count a completed toggle run reports is the number of nodes, at any
\* depth and of any kind, whose name starts with the prefix.
C2_CountIsNumberOfMatches ==
    (script = "toggle" /\ outcome = "complete") =>
        matchCount = CountStartingWith(before[1].layers, prefix[2])

\* C2 witness: three matches on three nesting levels, counted through two
\* recursive calls
C2_Witness ==
    /\ script = "toggle" /\ outcome = "complete"
    /\ matchCount = 3
    /\ Len(before[1].layers) = 1
    /\ Len(before[1].layers[1].layers) = 1
    /\ Len(before[1].layers[1].layers[1].layers) = 1

\* C5: a toggle run completes exactly when a document is open, the prefix is a
\* non-empty string and the action is show or hide in any mix of cases; a run
\* that does not complete leaves every document as it was.
C5_AbortMutatesNothing ==
    script = "toggle" =>
        /\ (outcome = "complete") <=>
              /\ Len(before) > 0
              /\ prefix[1] = "string" /\ prefix[2] # <<>>
              /\ action[1] = "string"
              /\ (AnyCaseOf(action[2], Show) \/ AnyCaseOf(action[2], HideWord))
        /\ (outcome # "complete") => documents = before

\* C5 witness: a run aborted for an invalid action although a layer matches
\* the prefix and is visible
C5_Witness ==
    /\ script = "toggle" /\ outcome = "invalid"
    /\ \E k \in 1..Len(documents[1].layers) :
          /\ StartsWith(documents[1].layers[k].name, prefix[2])
          /\ documents[1].layers[k].visible

\* C6: after the rename pass, every top-level group that has a Text descendant
\* is named by the contents of the first Text node of its subtree (direct
\* children before nested groups).
C6_RenamedToFirstText ==
    (script = "rename" /\ Len(before) > 0) =>
        \A k \in TopLevelGroups(before[1].layers) :
            HasText(before[1].layers[k]) =>
                documents[1].layers[k].name = FirstTextContents(before[1].layers[k])

\* C7: the rename pass leaves the name of every top-level group without a Text
\* descendant as it was, and goes on to the groups after it.
C7_NoTextNoRename ==
    (script = "rename" /\ Len(before) > 0) =>
        /\ Len(documents[1].layers) = Len(before[1].layers)
        /\ \A k \in TopLevelGroups(before[1].layers) :
              ~HasText(before[1].layers[k]) =>
                  documents[1].layers[k].name = before[1].layers[k].name

\* C7 witness: a group without text kept its name and a later group was renamed
C7_Witness ==
    /\ script = "rename" /\ Len(before) > 0
    /\ \E k, m \in TopLevelGroups(before[1].layers) :
          /\ k < m
          /\ ~HasText(before[1].layers[k])
          /\ documents[1].layers[k].name = before[1].layers[k].name
          /\ documents[1].layers[m].name # before[1].layers[m].name

\* C9: a second run of hide-all-text directly after a first changes no
\* visibility (nor anything else) in the document.
C9_HideIdempotent ==
    (script = "hide" /\ runs >= 2) => documents = before

\* C9 witness: two runs on a document with a text layer inside a group and a
\* visible non-text layer
C9_Witness ==
    /\ script = "hide" /\ runs = 2 /\ Len(documents) > 0
    /\ HasNestedText(documents[1].layers)
    /\ \E k \in 1..Len(documents[1].layers) :
          documents[1].layers[k].typename = "ArtLayer" /\ documents[1].layers[k].visible

\* C3: when the export ran to completion after a folder was selected, every
\* top-level node has the visibility it had before the run.
C3_ExportRestoresVisibility ==
    pc = "done" => SavedStates(documents[1].layers) = SavedStates(before[1].layers)

\* C3 witness: a completed export of at least one group, of a document whose
\* top level had both a visible and a hidden node
C3_Witness ==
    /\ pc = "done" /\ exportCount >= 1
    /\ \E k, m \in 1..Len(before[1].layers) :
          before[1].layers[k].visible /\ ~before[1].layers[m].visible

\* C3, without groups: the export of a document with no top-level group
C3_WitnessNoGroups ==
    /\ pc = "done" /\ exportCount = 0
    /\ \E k \in 1..Len(before[1].layers) : before[1].layers[k].visible

\* C4: when saving fails during the export of a group, every top-level node
\* still has its pre-export visibility when the run ends.
C4_FailureRestoresVisibility ==
    pc = "failed" => SavedStates(documents[1].layers) = SavedStates(before[1].layers)

\* C8: after a completed export the number of distinct files written equals
\* the number of top-level groups.
C8_OneFilePerGroup ==
    pc = "done" => Cardinality(files) = Cardinality(TopLevelGroups(before[1].layers))

\* C10: each save was made with the exported group visible and every other
\* top-level node hidden; the saves so far are those of the top-level groups
\* already passed, one each, in document order.
C10_SaveSeesOnlyCurrentGroup ==
    pc \in {"loop", "done", "failed"} =>
        /\ [n \in 1..Len(saves) |-> saves[n].index] = GroupIndices(before[1].layers, i)
        /\ exportCount = Len(saves)
        /\ \A n \in 1..Len(saves) :
              /\ Len(saves[n].visible) = Len(before[1].layers)
              /\ \A k \in 1..Len(before[1].layers) :
                    saves[n].visible[k] = (k = saves[n].index)

\* C10 witness: two groups saved in a document that also has a top-level art
\* layer, visible before the run
C10_Witness ==
    /\ pc = "done" /\ Len(saves) = 2
    /\ \E k \in 1..Len(before[1].layers) :
          before[1].layers[k].typename = "ArtLayer" /\ before[1].layers[k].visible

====
